---- MODULE Spec2Model ----
(***************************************************************************)
(* LLVM-style RTTI casting utilities of PocketLibs: isa<>, cast<> and      *)
(* dyn_cast<> over five ownership shapes (reference, raw pointer,          *)
(* std::unique_ptr, std::shared_ptr, std::optional), as written twice in   *)
(* casting.hxx (concept based) and casting.h (void_t based), applied to    *)
(* the Shape hierarchy of examples/casting_example.cxx and the Expr        *)
(* hierarchy of integration-example/casting/src/main.cxx.                  *)
(*                                                                         *)
(* A polymorphic object is its class and its discriminant (the const kind  *)
(* member its constructor sets); its identity is its address.  A handle is *)
(* an ownership shape, the static pointee type and the address it holds    *)
(* (0: null pointer, empty handle, empty optional).  Assertions are        *)
(* enabled (no NDEBUG): a failed assert aborts the program.                *)
(***************************************************************************)
EXTENDS Integers, Sequences, FiniteSets, TLC

VARIABLES
    variant,    \* "hxx" or "h": the header the program includes
    heap,       \* address -> object ([cls, kind]) or NoObj
    handles,    \* the caller's handles, a sequence of Handle records
    last,       \* the last library call: its arguments, outcome and result
    halted      \* the program aborted (failed assert) or could not be built

vars == <<variant, heap, handles, last, halted>>

(***************************************************************************)
(* Bounds of the model.                                                    *)
(***************************************************************************)
\* the longest candidate pack isa<T1, ..., Tn> is called with
MaxCands == 2
\* the most handles the caller keeps (source handle plus narrowed results)
MaxHandles == 3

(***************************************************************************)
(* The class hierarchies of the two example programs.                      *)
(***************************************************************************)
\* Shape::ShapeKind enumerators, in declaration order
SK_Parallelogram == 0
SK_Rhombus == 1
SK_Rectangle == 2
SK_Square == 3
SK_Ellipse == 4
SK_Triangle == 5
SK_EquilateralTriangle == 6
SK_IsoscelesTriangle == 7
SK_ScaleneTriangle == 8
\* Expr::ExprKind enumerators, in declaration order
EK_Literal == 0
EK_BinaryOp == 1

ShapeClasses ==
    {"Shape", "Parallelogram", "Rhombus", "Rectangle", "Square", "Ellipse",
     "Triangle", "EquilateralTriangle", "IsoscelesTriangle", "ScaleneTriangle"}

ExprClasses == {"Expr", "BinaryOp", "Literal"}

Types == ShapeClasses \cup ExprClasses

\* classes with a pure virtual member: no object has exactly this class
AbstractClasses == {"Shape", "Expr"}

ConcreteClasses == Types \ AbstractClasses

\* the direct public base of a class ("none" for a root)
Parent(c) ==
    CASE c = "Parallelogram" -> "Shape"
      [] c = "Rhombus" -> "Parallelogram"
      [] c = "Rectangle" -> "Parallelogram"
      [] c = "Square" -> "Rectangle"
      [] c = "Ellipse" -> "Shape"
      [] c = "Triangle" -> "Shape"
      [] c = "EquilateralTriangle" -> "Triangle"
      [] c = "IsoscelesTriangle" -> "Triangle"
      [] c = "ScaleneTriangle" -> "Triangle"
      [] c = "BinaryOp" -> "Expr"
      [] c = "Literal" -> "Expr"
      [] OTHER -> "none"

\* std::is_base_of_v<B, D>: B is D or a (transitive) base of D
RECURSIVE is_base_of(_, _)
is_base_of(B, D) ==
    IF B = D THEN TRUE
    ELSE IF Parent(D) = "none" THEN FALSE
    ELSE is_base_of(B, Parent(D))

\* the discriminant the public constructor of class c passes up to its root
CtorKind(c) ==
    CASE c = "Parallelogram" -> SK_Parallelogram
      [] c = "Rhombus" -> SK_Rhombus
      [] c = "Rectangle" -> SK_Rectangle
      [] c = "Square" -> SK_Square
      [] c = "Ellipse" -> SK_Ellipse
      [] c = "Triangle" -> SK_Triangle
      [] c = "EquilateralTriangle" -> SK_EquilateralTriangle
      [] c = "IsoscelesTriangle" -> SK_IsoscelesTriangle
      [] c = "ScaleneTriangle" -> SK_ScaleneTriangle
      [] c = "Literal" -> EK_Literal
      [] c = "BinaryOp" -> EK_BinaryOp

\* T declares a static classof (the roots Shape and Expr declare none)
HasClassof(T) == T \notin AbstractClasses

\* the pointee type of T::classof's parameter
ClassofParam(T) == IF T \in ShapeClasses THEN "Shape" ELSE "Expr"

\* Parallelogram::classof whose range ends one kind too far, at SK_Ellipse
classof_parallelogram_to_ellipse(T, kind) ==
    CASE T = "Parallelogram" -> kind >= SK_Parallelogram /\ kind <= SK_Ellipse
      [] T = "Rhombus" -> kind = SK_Rhombus
      [] T = "Rectangle" -> kind >= SK_Rectangle /\ kind <= SK_Square
      [] T = "Square" -> kind = SK_Square
      [] T = "Ellipse" -> kind = SK_Ellipse
      [] T = "Triangle" -> kind >= SK_Triangle /\ kind <= SK_ScaleneTriangle
      [] T = "EquilateralTriangle" -> kind = SK_EquilateralTriangle
      [] T = "IsoscelesTriangle" -> kind = SK_IsoscelesTriangle
      [] T = "ScaleneTriangle" -> kind = SK_ScaleneTriangle
      [] T = "BinaryOp" -> kind = EK_BinaryOp
      [] T = "Literal" -> kind = EK_Literal

\* Rectangle::classof that tests for SK_Rectangle alone
classof_rectangle_exact(T, kind) ==
    CASE T = "Parallelogram" -> kind >= SK_Parallelogram /\ kind <= SK_Square
      [] T = "Rhombus" -> kind = SK_Rhombus
      [] T = "Rectangle" -> kind = SK_Rectangle
      [] T = "Square" -> kind = SK_Square
      [] T = "Ellipse" -> kind = SK_Ellipse
      [] T = "Triangle" -> kind >= SK_Triangle /\ kind <= SK_ScaleneTriangle
      [] T = "EquilateralTriangle" -> kind = SK_EquilateralTriangle
      [] T = "IsoscelesTriangle" -> kind = SK_IsoscelesTriangle
      [] T = "ScaleneTriangle" -> kind = SK_ScaleneTriangle
      [] T = "BinaryOp" -> kind = EK_BinaryOp
      [] T = "Literal" -> kind = EK_Literal

\* T::classof(p) where p->GetKind() = kind
classof(T, kind) ==
    CASE T = "Parallelogram" -> kind >= SK_Parallelogram /\ kind <= SK_Square
      [] T = "Rhombus" -> kind = SK_Rhombus
      [] T = "Rectangle" -> kind >= SK_Rectangle /\ kind <= SK_Square
      [] T = "Square" -> kind = SK_Square
      [] T = "Ellipse" -> kind = SK_Ellipse
      [] T = "Triangle" -> kind >= SK_Triangle /\ kind <= SK_ScaleneTriangle
      [] T = "EquilateralTriangle" -> kind = SK_EquilateralTriangle
      [] T = "IsoscelesTriangle" -> kind = SK_IsoscelesTriangle
      [] T = "ScaleneTriangle" -> kind = SK_ScaleneTriangle
      [] T = "BinaryOp" -> kind = EK_BinaryOp
      [] T = "Literal" -> kind = EK_Literal

(***************************************************************************)
(* Values of the model.                                                    *)
(***************************************************************************)
Shapes == {"ref", "ptr", "unique", "shared", "optional"}

NoObj == [cls |-> "none", kind |-> -1]

Obj(cls, kind) == [cls |-> cls, kind |-> kind]

\* addr = 0: a null pointer, an empty handle, an empty optional
Handle(shape, type, addr) == [shape |-> shape, type |-> type, addr |-> addr]

\* What a cast returns.  rshape is the result's own shape ("value": a To by
\* value; "ptr_to_unique": a std::unique_ptr<To> *).  addr is the storage a
\* present pointer or handle refers to; an optional or a value is a copy in
\* storage of its own (addr 0) that carries the copied discriminant.
Res(rshape, type, present, addr, kind) ==
    [rshape |-> rshape, type |-> type, present |-> present, addr |-> addr,
     kind |-> kind]

NoRes == Res("none", "none", FALSE, 0, -1)

\* What a call does: out is "ok", "assert" (a failed assert) or "ill_formed"
\* (the return statement taken does not type-check); b is isa's boolean; src is
\* the source handle after the call; calls lists the classof invocations.
Ret(out, b, res, src, calls) ==
    [out |-> out, b |-> b, res |-> res, src |-> src, calls |-> calls]

AssertFail(h, calls) == Ret("assert", FALSE, NoRes, h, calls)

\* shape->GetKind() through a non-null handle
GetKind(h) == heap[h.addr].kind

(***************************************************************************)
(* casting.hxx                                                             *)
(***************************************************************************)
\* concept detail::ClassofCallable<T, From>: T::classof(const From *) is
\* well-formed and its result converts to bool
ClassofCallable(T, From) == HasClassof(T) /\ is_base_of(ClassofParam(T), From)

\* isa_impl with the classof branch tested before the is_base_of branch
isa_impl_hxx_classof_first(To, From, obj) ==
    IF ClassofCallable(To, From)
    THEN [b |-> classof(To, obj.kind), calls |-> <<To>>]
    ELSE IF is_base_of(To, From) THEN [b |-> TRUE, calls |-> <<>>]
    ELSE [b |-> FALSE, calls |-> <<>>]

\* isa_impl without the is_base_of branch
isa_impl_hxx_no_base(To, From, obj) ==
    IF ClassofCallable(To, From)
    THEN [b |-> classof(To, obj.kind), calls |-> <<To>>]
    ELSE [b |-> FALSE, calls |-> <<>>]

\* isa_impl whose first branch tests is_same_v<To, From> where is_base_of_v
\* is meant
isa_impl_hxx_same_only(To, From, obj) ==
    IF To = From THEN [b |-> TRUE, calls |-> <<>>]
    ELSE IF ClassofCallable(To, From)
         THEN [b |-> classof(To, obj.kind), calls |-> <<To>>]
    ELSE [b |-> FALSE, calls |-> <<>>]

\* detail::isa_impl<To>(const From &): [b: the decision, calls: classof calls]
isa_impl_hxx(To, From, obj) ==
    IF is_base_of(To, From) THEN [b |-> TRUE, calls |-> <<>>]
    ELSE IF ClassofCallable(To, From)
         THEN [b |-> classof(To, obj.kind), calls |-> <<To>>]
    ELSE [b |-> FALSE, calls |-> <<>>]

\* the fold written with && in place of ||
RECURSIVE fold_and_hxx(_, _, _)
fold_and_hxx(Cands, From, obj) ==
    IF Cands = <<>> THEN [b |-> TRUE, calls |-> <<>>]
    ELSE LET r == isa_impl_hxx(Head(Cands), From, obj) IN
         IF ~r.b THEN r
         ELSE LET rest == fold_and_hxx(Tail(Cands), From, obj) IN
              [b |-> rest.b, calls |-> r.calls \o rest.calls]

\* the fold (detail::isa_impl<To>(pVal) || ...): left to right, || short-circuits
RECURSIVE fold_or_hxx(_, _, _)
fold_or_hxx(Cands, From, obj) ==
    IF Cands = <<>> THEN [b |-> FALSE, calls |-> <<>>]
    ELSE LET r == isa_impl_hxx(Head(Cands), From, obj) IN
         IF r.b THEN r
         ELSE LET rest == fold_or_hxx(Tail(Cands), From, obj) IN
              [b |-> rest.b, calls |-> r.calls \o rest.calls]

\* isa<To...>(const From &)
isa_ref_hxx(Cands, h) ==
    LET r == fold_or_hxx(Cands, h.type, heap[h.addr]) IN
    Ret("ok", r.b, NoRes, h, r.calls)

\* isa on a pointer that answers false for a null pointer where the assert is
\* (return pVal && (...))
isa_ptr_hxx_null_false(Cands, h) ==
    IF h.addr = 0 THEN Ret("ok", FALSE, NoRes, h, <<>>)
    ELSE LET r == fold_or_hxx(Cands, h.type, heap[h.addr]) IN
         Ret("ok", r.b, NoRes, h, r.calls)

\* isa<To...>(From *) and isa<To...>(const From *)
isa_ptr_hxx(Cands, h) ==
    IF h.addr = 0 THEN AssertFail(h, <<>>)
    ELSE LET r == fold_or_hxx(Cands, h.type, heap[h.addr]) IN
         Ret("ok", r.b, NoRes, h, r.calls)

\* isa<To...>(const std::unique_ptr<From> &)
isa_unique_hxx(Cands, h) ==
    IF h.addr = 0 THEN AssertFail(h, <<>>)
    ELSE LET r == fold_or_hxx(Cands, h.type, heap[h.addr]) IN
         Ret("ok", r.b, NoRes, h, r.calls)

\* isa<To...>(const std::shared_ptr<From> &)
isa_shared_hxx(Cands, h) ==
    IF h.addr = 0 THEN AssertFail(h, <<>>)
    ELSE LET r == fold_or_hxx(Cands, h.type, heap[h.addr]) IN
         Ret("ok", r.b, NoRes, h, r.calls)

\* isa on an optional that hands the optional itself (pVal where *pVal is
\* meant) to isa_impl: no candidate is a base of std::optional<From> and no
\* classof accepts its address
isa_optional_hxx_no_deref(Cands, h) ==
    IF h.addr = 0 THEN AssertFail(h, <<>>)
    ELSE Ret("ok", FALSE, NoRes, h, <<>>)

\* isa<To...>(const std::optional<From> &)
isa_optional_hxx(Cands, h) ==
    IF h.addr = 0 THEN AssertFail(h, <<>>)
    ELSE LET r == fold_or_hxx(Cands, h.type, heap[h.addr]) IN
         Ret("ok", r.b, NoRes, h, r.calls)

\* cast<To>(From &) and cast<To>(const From &)
cast_ref_hxx(To, h) ==
    LET t == isa_ref_hxx(<<To>>, h) IN
    IF t.out # "ok" \/ ~t.b THEN AssertFail(h, t.calls)
    ELSE Ret("ok", FALSE, Res("ref", To, TRUE, h.addr, GetKind(h)), h, t.calls)

\* cast<To>(From *) and cast<To>(const From *)
cast_ptr_hxx(To, h) ==
    LET t == isa_ptr_hxx(<<To>>, h) IN
    IF t.out # "ok" \/ ~t.b THEN AssertFail(h, t.calls)
    ELSE Ret("ok", FALSE, Res("ptr", To, TRUE, h.addr, GetKind(h)), h, t.calls)

\* cast on a unique handle that reads pVal.get() where release() is meant
cast_unique_hxx_get(To, h) ==
    IF h.addr = 0 THEN AssertFail(h, <<>>)
    ELSE LET t == isa_unique_hxx(<<To>>, h) IN
         IF t.out # "ok" \/ ~t.b THEN AssertFail(h, t.calls)
         ELSE Ret("ok", FALSE, Res("unique", To, TRUE, h.addr, GetKind(h)), h,
                  t.calls)

\* cast on a unique handle that releases the source before it tests isa<To>
cast_unique_hxx_release_first(To, h) ==
    IF h.addr = 0 THEN AssertFail(h, <<>>)
    ELSE LET t == isa_unique_hxx(<<To>>, h) IN
         IF t.out # "ok" \/ ~t.b THEN AssertFail([h EXCEPT !.addr = 0], t.calls)
         ELSE Ret("ok", FALSE, Res("unique", To, TRUE, h.addr, GetKind(h)),
                  [h EXCEPT !.addr = 0], t.calls)

\* cast on a unique handle that releases the source and returns an empty handle
cast_unique_hxx_leak(To, h) ==
    IF h.addr = 0 THEN AssertFail(h, <<>>)
    ELSE LET t == isa_unique_hxx(<<To>>, h) IN
         IF t.out # "ok" \/ ~t.b THEN AssertFail(h, t.calls)
         ELSE Ret("ok", FALSE, Res("unique", To, FALSE, 0, -1),
                  [h EXCEPT !.addr = 0], t.calls)

\* cast<To>(std::unique_ptr<From> &&): pVal.release() empties the source
cast_unique_hxx(To, h) ==
    IF h.addr = 0 THEN AssertFail(h, <<>>)
    ELSE LET t == isa_unique_hxx(<<To>>, h) IN
         IF t.out # "ok" \/ ~t.b THEN AssertFail(h, t.calls)
         ELSE Ret("ok", FALSE, Res("unique", To, TRUE, h.addr, GetKind(h)),
                  [h EXCEPT !.addr = 0], t.calls)

\* cast on a shared handle that moves from its source
cast_shared_hxx_move(To, h) ==
    IF h.addr = 0 THEN AssertFail(h, <<>>)
    ELSE LET t == isa_shared_hxx(<<To>>, h) IN
         IF t.out # "ok" \/ ~t.b THEN AssertFail(h, t.calls)
         ELSE Ret("ok", FALSE, Res("shared", To, TRUE, h.addr, GetKind(h)),
                  [h EXCEPT !.addr = 0], t.calls)

\* cast<To>(const std::shared_ptr<From> &): std::static_pointer_cast shares
\* ownership with the source
cast_shared_hxx(To, h) ==
    IF h.addr = 0 THEN AssertFail(h, <<>>)
    ELSE LET t == isa_shared_hxx(<<To>>, h) IN
         IF t.out # "ok" \/ ~t.b THEN AssertFail(h, t.calls)
         ELSE Ret("ok", FALSE, Res("shared", To, TRUE, h.addr, GetKind(h)), h,
                  t.calls)

\* cast<To>(const std::optional<From> &) -> std::optional<To>: an empty
\* optional is returned as std::nullopt; otherwise the contained value is
\* narrowed by the reference overload and copied into a new optional
cast_optional_hxx(To, h) ==
    IF h.addr = 0
    THEN Ret("ok", FALSE, Res("optional", To, FALSE, 0, -1), h, <<>>)
    ELSE LET v == Handle("ref", h.type, h.addr)
             t == isa_ref_hxx(<<To>>, v)
         IN  IF t.out # "ok" \/ ~t.b THEN AssertFail(h, t.calls)
             ELSE LET c == cast_ref_hxx(To, v) IN
                  IF c.out # "ok" THEN AssertFail(h, t.calls \o c.calls)
                  ELSE Ret("ok", FALSE,
                           Res("optional", To, TRUE, 0, c.res.kind), h,
                           t.calls \o c.calls)

\* dyn_cast<To>(From &) and dyn_cast<To>(const From &):
\* isa<To>(pVal) ? cast<To>(&pVal) : nullptr
dyn_cast_ref_hxx(To, h) ==
    LET t == isa_ref_hxx(<<To>>, h) IN
    IF t.out # "ok" THEN AssertFail(h, t.calls)
    ELSE IF t.b
         THEN LET c == cast_ptr_hxx(To, Handle("ptr", h.type, h.addr)) IN
              Ret(c.out, FALSE, c.res, h, t.calls \o c.calls)
    ELSE Ret("ok", FALSE, Res("ptr", To, FALSE, 0, -1), h, t.calls)

\* dyn_cast on a pointer with the branches of the conditional swapped
dyn_cast_ptr_hxx_swapped(To, h) ==
    IF h.addr = 0 THEN AssertFail(h, <<>>)
    ELSE LET t == isa_ptr_hxx(<<To>>, h) IN
         IF t.b THEN Ret("ok", FALSE, Res("ptr", To, FALSE, 0, -1), h, t.calls)
         ELSE AssertFail(h, t.calls \o t.calls)

\* dyn_cast on a pointer without the null test: isa<To>(pVal) ? cast<To>(pVal)
\* : nullptr
dyn_cast_ptr_hxx_no_null_test(To, h) ==
    LET t == isa_ptr_hxx(<<To>>, h) IN
    IF t.out # "ok" THEN AssertFail(h, t.calls)
    ELSE IF t.b
         THEN LET c == cast_ptr_hxx(To, h) IN
              Ret(c.out, FALSE, c.res, c.src, t.calls \o c.calls)
    ELSE Ret("ok", FALSE, Res("ptr", To, FALSE, 0, -1), h, t.calls)

\* dyn_cast<To>(From *) and dyn_cast<To>(const From *):
\* (pVal && isa<To>(pVal)) ? cast<To>(pVal) : nullptr
dyn_cast_ptr_hxx(To, h) ==
    IF h.addr = 0 THEN Ret("ok", FALSE, Res("ptr", To, FALSE, 0, -1), h, <<>>)
    ELSE LET t == isa_ptr_hxx(<<To>>, h) IN
         IF t.out # "ok" THEN AssertFail(h, t.calls)
         ELSE IF t.b
              THEN LET c == cast_ptr_hxx(To, h) IN
                   Ret(c.out, FALSE, c.res, c.src, t.calls \o c.calls)
         ELSE Ret("ok", FALSE, Res("ptr", To, FALSE, 0, -1), h, t.calls)

\* dyn_cast on a unique handle that releases the source before the test
dyn_cast_unique_hxx_release_first(To, h) ==
    IF h.addr = 0 THEN Ret("ok", FALSE, Res("unique", To, FALSE, 0, -1), h, <<>>)
    ELSE LET t == isa_unique_hxx(<<To>>, h) IN
         IF t.out # "ok" THEN AssertFail(h, t.calls)
         ELSE IF ~t.b
              THEN Ret("ok", FALSE, Res("unique", To, FALSE, 0, -1),
                       [h EXCEPT !.addr = 0], t.calls)
         ELSE LET c == cast_unique_hxx(To, h) IN
              Ret(c.out, FALSE, c.res, c.src, t.calls \o c.calls)

\* dyn_cast<To>(std::unique_ptr<From> &&) -> std::unique_ptr<To>
dyn_cast_unique_hxx(To, h) ==
    IF h.addr = 0 THEN Ret("ok", FALSE, Res("unique", To, FALSE, 0, -1), h, <<>>)
    ELSE LET t == isa_unique_hxx(<<To>>, h) IN
         IF t.out # "ok" THEN AssertFail(h, t.calls)
         ELSE IF ~t.b
              THEN Ret("ok", FALSE, Res("unique", To, FALSE, 0, -1), h, t.calls)
         ELSE LET c == cast_unique_hxx(To, h) IN
              Ret(c.out, FALSE, c.res, c.src, t.calls \o c.calls)

\* dyn_cast on a shared handle that moves the source into its result
dyn_cast_shared_hxx_move(To, h) ==
    IF h.addr = 0 THEN Ret("ok", FALSE, Res("shared", To, FALSE, 0, -1), h, <<>>)
    ELSE LET t == isa_shared_hxx(<<To>>, h) IN
         IF t.out # "ok" THEN AssertFail(h, t.calls)
         ELSE IF ~t.b
              THEN Ret("ok", FALSE, Res("shared", To, FALSE, 0, -1), h, t.calls)
         ELSE LET c == cast_shared_hxx(To, h) IN
              Ret(c.out, FALSE, c.res, [h EXCEPT !.addr = 0], t.calls \o c.calls)

\* dyn_cast<To>(const std::shared_ptr<From> &) -> std::shared_ptr<To>
dyn_cast_shared_hxx(To, h) ==
    IF h.addr = 0 THEN Ret("ok", FALSE, Res("shared", To, FALSE, 0, -1), h, <<>>)
    ELSE LET t == isa_shared_hxx(<<To>>, h) IN
         IF t.out # "ok" THEN AssertFail(h, t.calls)
         ELSE IF ~t.b
              THEN Ret("ok", FALSE, Res("shared", To, FALSE, 0, -1), h, t.calls)
         ELSE LET c == cast_shared_hxx(To, h) IN
              Ret(c.out, FALSE, c.res, c.src, t.calls \o c.calls)

\* dyn_cast on an optional that calls cast<To> without testing isa<To> first
dyn_cast_optional_hxx_no_isa(To, h) ==
    IF h.addr = 0 THEN Ret("ok", FALSE, Res("optional", To, FALSE, 0, -1), h, <<>>)
    ELSE LET c == cast_optional_hxx(To, h) IN
         Ret(c.out, FALSE, c.res, c.src, c.calls)

\* dyn_cast<To>(const std::optional<From> &) -> std::optional<To>
dyn_cast_optional_hxx(To, h) ==
    IF h.addr = 0 THEN Ret("ok", FALSE, Res("optional", To, FALSE, 0, -1), h, <<>>)
    ELSE LET t == isa_optional_hxx(<<To>>, h) IN
         IF t.out # "ok" THEN AssertFail(h, t.calls)
         ELSE IF ~t.b
              THEN Ret("ok", FALSE, Res("optional", To, FALSE, 0, -1), h, t.calls)
         ELSE LET c == cast_optional_hxx(To, h) IN
              Ret(c.out, FALSE, c.res, c.src, t.calls \o c.calls)

(***************************************************************************)
(* casting.h                                                               *)
(***************************************************************************)
\* trait detail::classof_callable<T, From>::value: the void_t specialisation
\* is chosen when decltype(T::classof(std::declval<const From *>())) exists
\* and converts to bool
classof_callable(T, From) == HasClassof(T) /\ is_base_of(ClassofParam(T), From)

\* detail::isa_impl<To>(const From &): [b: the decision, calls: classof calls]
isa_impl_h(To, From, obj) ==
    IF is_base_of(To, From) THEN [b |-> TRUE, calls |-> <<>>]
    ELSE IF classof_callable(To, From)
         THEN [b |-> classof(To, obj.kind), calls |-> <<To>>]
    ELSE [b |-> FALSE, calls |-> <<>>]

\* the fold (detail::isa_impl<To>(pVal) || ...): left to right, || short-circuits
RECURSIVE fold_or_h(_, _, _)
fold_or_h(Cands, From, obj) ==
    IF Cands = <<>> THEN [b |-> FALSE, calls |-> <<>>]
    ELSE LET r == isa_impl_h(Head(Cands), From, obj) IN
         IF r.b THEN r
         ELSE LET rest == fold_or_h(Tail(Cands), From, obj) IN
              [b |-> rest.b, calls |-> r.calls \o rest.calls]

\* isa<To...>(const From &)
isa_ref_h(Cands, h) ==
    LET r == fold_or_h(Cands, h.type, heap[h.addr]) IN
    Ret("ok", r.b, NoRes, h, r.calls)

\* isa<To...>(From *) and isa<To...>(const From *)
isa_ptr_h(Cands, h) ==
    IF h.addr = 0 THEN AssertFail(h, <<>>)
    ELSE LET r == fold_or_h(Cands, h.type, heap[h.addr]) IN
         Ret("ok", r.b, NoRes, h, r.calls)

\* isa<To...>(const std::unique_ptr<From> &)
isa_unique_h(Cands, h) ==
    IF h.addr = 0 THEN AssertFail(h, <<>>)
    ELSE LET r == fold_or_h(Cands, h.type, heap[h.addr]) IN
         Ret("ok", r.b, NoRes, h, r.calls)

\* isa<To...>(const std::shared_ptr<From> &)
isa_shared_h(Cands, h) ==
    IF h.addr = 0 THEN AssertFail(h, <<>>)
    ELSE LET r == fold_or_h(Cands, h.type, heap[h.addr]) IN
         Ret("ok", r.b, NoRes, h, r.calls)

\* isa<To...>(const std::optional<From> &)
isa_optional_h(Cands, h) ==
    IF h.addr = 0 THEN AssertFail(h, <<>>)
    ELSE LET r == fold_or_h(Cands, h.type, heap[h.addr]) IN
         Ret("ok", r.b, NoRes, h, r.calls)

\* cast<To>(From &) and cast<To>(const From &)
cast_ref_h(To, h) ==
    LET t == isa_ref_h(<<To>>, h) IN
    IF t.out # "ok" \/ ~t.b THEN AssertFail(h, t.calls)
    ELSE Ret("ok", FALSE, Res("ref", To, TRUE, h.addr, GetKind(h)), h, t.calls)

\* cast<To>(From *) and cast<To>(const From *)
cast_ptr_h(To, h) ==
    LET t == isa_ptr_h(<<To>>, h) IN
    IF t.out # "ok" \/ ~t.b THEN AssertFail(h, t.calls)
    ELSE Ret("ok", FALSE, Res("ptr", To, TRUE, h.addr, GetKind(h)), h, t.calls)

\* cast<To>(std::unique_ptr<From> &&): pVal.release() empties the source
cast_unique_h(To, h) ==
    IF h.addr = 0 THEN AssertFail(h, <<>>)
    ELSE LET t == isa_unique_h(<<To>>, h) IN
         IF t.out # "ok" \/ ~t.b THEN AssertFail(h, t.calls)
         ELSE Ret("ok", FALSE, Res("unique", To, TRUE, h.addr, GetKind(h)),
                  [h EXCEPT !.addr = 0], t.calls)

\* cast<To>(const std::shared_ptr<From> &): std::static_pointer_cast shares
\* ownership with the source
cast_shared_h(To, h) ==
    IF h.addr = 0 THEN AssertFail(h, <<>>)
    ELSE LET t == isa_shared_h(<<To>>, h) IN
         IF t.out # "ok" \/ ~t.b THEN AssertFail(h, t.calls)
         ELSE Ret("ok", FALSE, Res("shared", To, TRUE, h.addr, GetKind(h)), h,
                  t.calls)

\* cast<To>(const std::optional<From> &) -> To: asserts has_value() and
\* isa<To>(pVal), then returns cast<To>(*pVal) by value
cast_optional_h(To, h) ==
    IF h.addr = 0 THEN AssertFail(h, <<>>)
    ELSE LET t == isa_optional_h(<<To>>, h) IN
         IF t.out # "ok" \/ ~t.b THEN AssertFail(h, t.calls)
         ELSE LET c == cast_ref_h(To, Handle("ref", h.type, h.addr)) IN
              IF c.out # "ok" THEN AssertFail(h, t.calls \o c.calls)
              ELSE Ret("ok", FALSE, Res("value", To, TRUE, 0, c.res.kind), h,
                       t.calls \o c.calls)

\* dyn_cast<To>(From &) and dyn_cast<To>(const From &):
\* isa<To>(pVal) ? &cast<To>(pVal) : nullptr
dyn_cast_ref_h(To, h) ==
    LET t == isa_ref_h(<<To>>, h) IN
    IF t.out # "ok" THEN AssertFail(h, t.calls)
    ELSE IF t.b
         THEN LET c == cast_ref_h(To, h) IN
              IF c.out # "ok" THEN AssertFail(h, t.calls \o c.calls)
              ELSE Ret("ok", FALSE,
                       Res("ptr", To, TRUE, c.res.addr, c.res.kind), h,
                       t.calls \o c.calls)
    ELSE Ret("ok", FALSE, Res("ptr", To, FALSE, 0, -1), h, t.calls)

\* dyn_cast<To>(From *) and dyn_cast<To>(const From *):
\* (pVal && isa<To>(pVal)) ? cast<To>(pVal) : nullptr
dyn_cast_ptr_h(To, h) ==
    IF h.addr = 0 THEN Ret("ok", FALSE, Res("ptr", To, FALSE, 0, -1), h, <<>>)
    ELSE LET t == isa_ptr_h(<<To>>, h) IN
         IF t.out # "ok" THEN AssertFail(h, t.calls)
         ELSE IF t.b
              THEN LET c == cast_ptr_h(To, h) IN
                   Ret(c.out, FALSE, c.res, c.src, t.calls \o c.calls)
         ELSE Ret("ok", FALSE, Res("ptr", To, FALSE, 0, -1), h, t.calls)

\* dyn_cast<To>(std::unique_ptr<From> &&) -> std::unique_ptr<To> *: the
\* mismatch path returns nullptr, a null pointer to a handle; the match path is
\* "return cast<To>(std::move(pVal));", a std::unique_ptr<To> where a
\* std::unique_ptr<To> * is to be returned: no conversion exists, the statement
\* does not type-check and nothing of it runs
dyn_cast_unique_h(To, h) ==
    IF h.addr = 0
    THEN Ret("ok", FALSE, Res("ptr_to_unique", To, FALSE, 0, -1), h, <<>>)
    ELSE LET t == isa_unique_h(<<To>>, h) IN
         IF t.out # "ok" THEN AssertFail(h, t.calls)
         ELSE IF ~t.b
              THEN Ret("ok", FALSE, Res("ptr_to_unique", To, FALSE, 0, -1), h,
                       t.calls)
         ELSE Ret("ill_formed", FALSE, NoRes, h, t.calls)

\* dyn_cast<To>(const std::shared_ptr<From> &) -> std::shared_ptr<To>
dyn_cast_shared_h(To, h) ==
    IF h.addr = 0 THEN Ret("ok", FALSE, Res("shared", To, FALSE, 0, -1), h, <<>>)
    ELSE LET t == isa_shared_h(<<To>>, h) IN
         IF t.out # "ok" THEN AssertFail(h, t.calls)
         ELSE IF ~t.b
              THEN Ret("ok", FALSE, Res("shared", To, FALSE, 0, -1), h, t.calls)
         ELSE LET c == cast_shared_h(To, h) IN
              Ret(c.out, FALSE, c.res, c.src, t.calls \o c.calls)

\* dyn_cast<To>(const std::optional<From> &) -> std::optional<To>: the To
\* that cast<To>(pVal) returns is wrapped into the optional returned
dyn_cast_optional_h(To, h) ==
    IF h.addr = 0 THEN Ret("ok", FALSE, Res("optional", To, FALSE, 0, -1), h, <<>>)
    ELSE LET t == isa_optional_h(<<To>>, h) IN
         IF t.out # "ok" THEN AssertFail(h, t.calls)
         ELSE IF ~t.b
              THEN Ret("ok", FALSE, Res("optional", To, FALSE, 0, -1), h, t.calls)
         ELSE LET c == cast_optional_h(To, h) IN
              IF c.out # "ok" THEN AssertFail(h, t.calls \o c.calls)
              ELSE Ret("ok", FALSE,
                       Res("optional", To, TRUE, 0, c.res.kind), c.src,
                       t.calls \o c.calls)

(***************************************************************************)
(* Overload resolution: the overload a call site selects for the shape of  *)
(* its argument, in the header the program includes.                       *)
(***************************************************************************)
isa(v, Cands, h) ==
    IF v = "hxx"
    THEN CASE h.shape = "ref" -> isa_ref_hxx(Cands, h)
           [] h.shape = "ptr" -> isa_ptr_hxx(Cands, h)
           [] h.shape = "unique" -> isa_unique_hxx(Cands, h)
           [] h.shape = "shared" -> isa_shared_hxx(Cands, h)
           [] h.shape = "optional" -> isa_optional_hxx(Cands, h)
    ELSE CASE h.shape = "ref" -> isa_ref_h(Cands, h)
           [] h.shape = "ptr" -> isa_ptr_h(Cands, h)
           [] h.shape = "unique" -> isa_unique_h(Cands, h)
           [] h.shape = "shared" -> isa_shared_h(Cands, h)
           [] h.shape = "optional" -> isa_optional_h(Cands, h)

cast(v, To, h) ==
    IF v = "hxx"
    THEN CASE h.shape = "ref" -> cast_ref_hxx(To, h)
           [] h.shape = "ptr" -> cast_ptr_hxx(To, h)
           [] h.shape = "unique" -> cast_unique_hxx(To, h)
           [] h.shape = "shared" -> cast_shared_hxx(To, h)
           [] h.shape = "optional" -> cast_optional_hxx(To, h)
    ELSE CASE h.shape = "ref" -> cast_ref_h(To, h)
           [] h.shape = "ptr" -> cast_ptr_h(To, h)
           [] h.shape = "unique" -> cast_unique_h(To, h)
           [] h.shape = "shared" -> cast_shared_h(To, h)
           [] h.shape = "optional" -> cast_optional_h(To, h)

dyn_cast(v, To, h) ==
    IF v = "hxx"
    THEN CASE h.shape = "ref" -> dyn_cast_ref_hxx(To, h)
           [] h.shape = "ptr" -> dyn_cast_ptr_hxx(To, h)
           [] h.shape = "unique" -> dyn_cast_unique_hxx(To, h)
           [] h.shape = "shared" -> dyn_cast_shared_hxx(To, h)
           [] h.shape = "optional" -> dyn_cast_optional_hxx(To, h)
    ELSE CASE h.shape = "ref" -> dyn_cast_ref_h(To, h)
           [] h.shape = "ptr" -> dyn_cast_ptr_h(To, h)
           [] h.shape = "unique" -> dyn_cast_unique_h(To, h)
           [] h.shape = "shared" -> dyn_cast_shared_h(To, h)
           [] h.shape = "optional" -> dyn_cast_optional_h(To, h)

\* static_cast<To &>(From &) and static_cast<To *>(From *) compile when one
\* class is the other or a base of it; std::optional<To> and a To returned by
\* value need a To that is not abstract
CastCompiles(To, h) ==
    /\ is_base_of(To, h.type) \/ is_base_of(h.type, To)
    /\ h.shape = "optional" => To \in ConcreteClasses

(***************************************************************************)
(* The program: a caller that holds handles to one polymorphic object and  *)
(* calls isa, cast and dyn_cast on them.                                   *)
(***************************************************************************)
\* the number of shared handles among hs that own the object at a
Owners(hs, a) ==
    IF a = 0 THEN 0
    ELSE Cardinality({k \in DOMAIN hs : hs[k].shape = "shared" /\ hs[k].addr = a})

\* the number of unique handles among hs that own the object at a
UniqueOwners(hs, a) ==
    IF a = 0 THEN 0
    ELSE Cardinality({k \in DOMAIN hs : hs[k].shape = "unique" /\ hs[k].addr = a})

\* the candidate packs isa<T1, ..., Tn> is called with, 1 <= n <= MaxCands
CandPacks == UNION {[1..n -> Types] : n \in 1..MaxCands}

NoCall ==
    [op |-> "none", src |-> 0, cands |-> <<>>,
     pre |-> Handle("none", "none", 0), preOwners |-> 0,
     out |-> "ok", b |-> FALSE, res |-> NoRes, calls |-> <<>>, dst |-> 0]

\* an owning result (a unique or shared handle that holds the object) is kept
\* by the caller as a new handle
Owning(r) ==
    r.out = "ok" /\ r.res.present /\ r.res.rshape \in {"unique", "shared"}

\* the caller's state after the call of op on handle i returned r
Apply(op, i, Cands, r) ==
    /\ Owning(r) => Len(handles) < MaxHandles
    /\ last' = [op |-> op, src |-> i, cands |-> Cands, pre |-> handles[i],
                preOwners |-> Owners(handles, handles[i].addr),
                out |-> r.out, b |-> r.b, res |-> r.res, calls |-> r.calls,
                dst |-> IF Owning(r) THEN Len(handles) + 1 ELSE 0]
    /\ handles' =
         LET hs == [handles EXCEPT ![i] = r.src] IN
         IF Owning(r)
         THEN Append(hs, Handle(r.res.rshape, r.res.type, r.res.addr))
         ELSE hs
    /\ halted' = (r.out # "ok")
    /\ UNCHANGED <<variant, heap>>

\* the object the program constructs (at address 1) and the first handle to it
Init ==
    /\ variant \in {"hxx", "h"}
    /\ \E cls \in ConcreteClasses, From \in Types, shape \in Shapes,
          present \in BOOLEAN :
          /\ is_base_of(From, cls)
          /\ shape = "optional" => From = cls
          /\ shape = "ref" => present
          \* no object is constructed behind an absent handle
          /\ ~present => cls = CHOOSE c \in ConcreteClasses : is_base_of(From, c)
          /\ heap = [a \in {1} |-> IF present THEN Obj(cls, CtorKind(cls))
                                   ELSE NoObj]
          /\ handles = <<Handle(shape, From, IF present THEN 1 ELSE 0)>>
    /\ last = NoCall
    /\ halted = FALSE

IsaCall ==
    /\ ~halted
    /\ \E i \in DOMAIN handles, To \in Types :
          Apply("isa", i, <<To>>, isa(variant, <<To>>, handles[i]))

CastCall ==
    /\ ~halted
    /\ \E i \in DOMAIN handles, To \in Types :
          /\ CastCompiles(To, handles[i])
          /\ Apply("cast", i, <<To>>, cast(variant, To, handles[i]))

DynCastCall ==
    /\ ~halted
    /\ \E i \in DOMAIN handles, To \in Types :
          /\ CastCompiles(To, handles[i])
          /\ Apply("dyn_cast", i, <<To>>, dyn_cast(variant, To, handles[i]))

Next == IsaCall \/ CastCall \/ DynCastCall

Spec == Init /\ [][Next]_vars

\* The program whose first library call is isa<T1, ..., Tn> with a pack of
\* candidate types.
IsaPackCall ==
    /\ ~halted
    /\ last.op = "none"
    /\ \E i \in DOMAIN handles, Cands \in CandPacks :
          Apply("isa", i, Cands, isa(variant, Cands, handles[i]))

SpecIsa == Init /\ [][IsaPackCall]_vars

(***************************************************************************)
(* Properties.                                                             *)
(***************************************************************************)
\* the target type of the last cast or dyn_cast (the first candidate of isa)
LastTo == last.cands[1]

\* isa<To>(v) on the source of the last call, as it was when the call began
LastIsa == isa(variant, <<LastTo>>, last.pre)

\* the last call returned normally with a present result
LastSucceeded == last.out = "ok" /\ last.res.present

\* the per-type decision of the included header
isa_impl(v, To, From, obj) ==
    IF v = "hxx" THEN isa_impl_hxx(To, From, obj) ELSE isa_impl_h(To, From, obj)

\* C1: for every shape and every present input v, dyn_cast<T>(v) returns a
\* present result if and only if isa<T>(v) is true.
C1_DynCastPresentIffIsa ==
    (last.op = "dyn_cast" /\ last.pre.addr # 0)
        => (LastSucceeded <=> LastIsa.b)

\* C2: for the reference and pointer shapes, whenever isa<T>(v) is true,
\* dyn_cast<T>(v) returns a pointer to the very storage of v, which is the
\* object cast<T>(v) returns.
C2_DynCastSameStorage ==
    (/\ last.op = "dyn_cast"
     /\ last.pre.shape \in {"ref", "ptr"}
     /\ last.pre.addr # 0
     /\ LastIsa.b)
        => /\ LastSucceeded
           /\ last.res.rshape = "ptr"
           /\ last.res.addr = last.pre.addr
           /\ LET c == cast(variant, LastTo, last.pre) IN
              c.out = "ok" /\ c.res.present /\ c.res.addr = last.res.addr

C2_Witness ==
    /\ last.op = "dyn_cast"
    /\ last.pre.shape \in {"ref", "ptr"}
    /\ last.pre.type = "Shape"
    /\ LastTo = "Rectangle"
    /\ LastIsa.b
    /\ last.res.present
    /\ last.res.addr = 1

\* C3: a successful cast<T> or dyn_cast<T> on a unique handle leaves the
\* source handle empty and returns a unique handle of the target type that
\* owns the same object, with the discriminant it had before the call.
C3_UniqueTransfer ==
    (/\ last.op \in {"cast", "dyn_cast"}
     /\ last.pre.shape = "unique"
     /\ LastSucceeded)
        => /\ handles[last.src].addr = 0
           /\ last.res.rshape = "unique"
           /\ last.res.type = LastTo
           /\ last.pre.addr # 0
           /\ last.res.addr = last.pre.addr
           /\ last.res.kind = heap[last.pre.addr].kind
           /\ handles[last.dst] = Handle("unique", LastTo, last.pre.addr)
           /\ UniqueOwners(handles, last.pre.addr) = 1

C3_Witness ==
    /\ last.op = "dyn_cast"
    /\ last.pre = Handle("unique", "Rectangle", 1)
    /\ heap[1].cls = "Square"
    /\ LastTo = "Rectangle"
    /\ LastSucceeded
    /\ handles[last.src].addr = 0
    /\ last.res.kind = SK_Square

\* C4: a failed dyn_cast<T> on a unique handle (the held value does not match
\* T) leaves the source handle fully intact: it still owns the same object,
\* no ownership moved and no handle was created.
C4_UniqueFailedIntact ==
    (/\ last.op = "dyn_cast"
     /\ last.pre.shape = "unique"
     /\ last.pre.addr # 0
     /\ ~LastIsa.b)
        => /\ last.out = "ok"
           /\ ~last.res.present
           /\ handles[last.src] = last.pre
           /\ last.dst = 0
           /\ UniqueOwners(handles, last.pre.addr) = 1
           /\ heap[last.pre.addr].kind = CtorKind(heap[last.pre.addr].cls)

C4_Witness ==
    /\ last.op = "dyn_cast"
    /\ last.pre.shape = "unique"
    /\ last.pre.addr # 0
    /\ ~LastIsa.b
    /\ handles[last.src] = last.pre

\* C5: a successful cast<T> or dyn_cast<T> on a shared handle returns a new
\* handle on the same object, raises the number of its owners by exactly one
\* and leaves the source handle as it was, non-empty.
C5_SharedAliases ==
    (/\ last.op \in {"cast", "dyn_cast"}
     /\ last.pre.shape = "shared"
     /\ LastSucceeded)
        => /\ last.res.rshape = "shared"
           /\ last.pre.addr # 0
           /\ last.res.addr = last.pre.addr
           /\ handles[last.src] = last.pre
           /\ handles[last.dst] = Handle("shared", LastTo, last.pre.addr)
           /\ last.dst # last.src
           /\ Owners(handles, last.pre.addr) = last.preOwners + 1

C5_Witness ==
    /\ last.op \in {"cast", "dyn_cast"}
    /\ last.pre.shape = "shared"
    /\ LastSucceeded
    /\ last.preOwners = 2
    /\ Owners(handles, last.pre.addr) = 3

\* C6: dyn_cast<T> given a null raw pointer or an empty optional returns an
\* absent result of its shape, fails no assert and never calls classof.
C6_DynCastAbsentInput ==
    (/\ last.op = "dyn_cast"
     /\ last.pre.shape \in {"ptr", "optional"}
     /\ last.pre.addr = 0)
        => /\ last.out = "ok"
           /\ ~last.res.present
           /\ last.res.rshape = last.pre.shape
           /\ last.calls = <<>>
           /\ handles[last.src] = last.pre

C6_Witness ==
    /\ last.op = "dyn_cast"
    /\ last.pre.shape \in {"ptr", "optional"}
    /\ last.pre.addr = 0
    /\ last.out = "ok"
    /\ ~last.res.present

\* the result shape the checked narrowing of a shape is specified to have
CanonicalShape(shape) == IF shape = "ref" THEN "ptr" ELSE shape

\* C7: in both headers a dyn_cast<T> that does not match returns the absent
\* value of its shape (null pointer for reference and pointer, empty optional,
\* empty shared handle, empty unique handle of the target type) and one that
\* matches returns a present value of that same shape.
C7_DynCastResultShape ==
    (last.op = "dyn_cast" /\ last.pre.addr # 0)
        => /\ last.out = "ok"
           /\ last.res.rshape = CanonicalShape(last.pre.shape)
           /\ last.res.type = LastTo
           /\ last.res.present = LastIsa.b

\* C8: isa<T1, ..., Tn>(v) is true if and only if v matches at least one Ti
\* (the disjunction of the per-type decisions).
C8_IsaAnyOf ==
    (last.op = "isa" /\ last.out = "ok")
        => (last.b <=>
              \E k \in DOMAIN last.cands :
                 isa_impl(variant, last.cands[k], last.pre.type,
                          heap[last.pre.addr]).b)

C8_Witness ==
    /\ last.op = "isa"
    /\ last.out = "ok"
    /\ Len(last.cands) = 2
    /\ ~isa_impl(variant, last.cands[1], last.pre.type, heap[last.pre.addr]).b
    /\ isa_impl(variant, last.cands[2], last.pre.type, heap[last.pre.addr]).b
    /\ last.b

\* C9: the per-type decision is a three-way choice on the static type From:
\* To is From or a base of From: true, and classof is not called; otherwise To
\* has a classof callable on const From *: the result of To::classof;
\* otherwise false.
C9_IsaImplThreeWay ==
    (last.op = "isa" /\ last.out = "ok" /\ Len(last.cands) = 1)
        => LET From == last.pre.type
               kind == heap[last.pre.addr].kind
               callable == /\ HasClassof(LastTo)
                           /\ is_base_of(ClassofParam(LastTo), From)
           IN  IF is_base_of(LastTo, From)
               THEN last.b /\ last.calls = <<>>
               ELSE IF callable
                    THEN last.b = classof(LastTo, kind) /\ last.calls = <<LastTo>>
               ELSE ~last.b /\ last.calls = <<>>

C9_Witness ==
    /\ last.op = "isa"
    /\ last.out = "ok"
    /\ last.pre.type = "Rectangle"
    /\ LastTo = "Parallelogram"
    /\ last.b
    /\ last.calls = <<>>

HoldersOf(a) ==
    {Handle(s, F, a) : s \in Shapes \ {"optional"},
                       F \in {B \in Types : is_base_of(B, heap[a].cls)}}
        \cup {Handle("optional", heap[a].cls, a)}

\* C11: for the same value and the same candidate types, isa returns the same
\* boolean whether the value is passed by reference, through a non-null
\* pointer, through a non-empty unique or shared handle, or inside a non-empty
\* optional.
C11_IsaShapesAgree ==
    (last.op = "isa" /\ last.out = "ok")
        => \A g \in HoldersOf(last.pre.addr) :
              LET r == isa(variant, last.cands, g) IN
              r.out = "ok" /\ r.b = last.b

C11_Witness ==
    /\ last.op = "isa"
    /\ last.out = "ok"
    /\ last.pre = Handle("shared", "Shape", 1)
    /\ heap[1].cls = "Square"
    /\ last.cands = <<"Rhombus", "Rectangle">>
    /\ last.b
    /\ isa(variant, last.cands, Handle("optional", "Square", 1)).b
    /\ isa(variant, last.cands, Handle("ref", "Rectangle", 1)).b


\* C12: isa on an absent input (null pointer, empty unique handle, empty
\* shared handle, empty optional) fails its assertion in every shape: it
\* returns neither true nor false, calls no classof and the program stops.
C12_IsaAbsentAsserts ==
    (last.op = "isa" /\ last.pre.addr = 0)
        => /\ last.out = "assert"
           /\ last.calls = <<>>
           /\ halted

\* isa on the unique handle a successful cast has emptied
C12_Witness ==
    /\ last.op = "isa"
    /\ last.pre.shape = "unique"
    /\ last.pre.addr = 0
    /\ Len(handles) = 2
    /\ handles[2].addr = 1
    /\ last.out = "assert"


\* C13: cast<T> on an absent input (null pointer, empty unique handle, empty
\* shared handle, empty optional) fails an assertion in every shape and in
\* both headers: it never returns normally, with an empty result or any other.
C13_CastAbsentAsserts ==
    (last.op = "cast" /\ last.pre.addr = 0)
        => /\ last.out = "assert"
           /\ last.res = NoRes
           /\ halted


\* C14: cast<T>(v) on a present value v for which isa<T>(v) is false fails its
\* membership assertion in every shape: it returns no result, creates no
\* handle, and the source (the unique handle too) is as it was when the
\* assertion fails.
C14_CastMismatchAsserts ==
    (/\ last.op = "cast"
     /\ last.pre.addr # 0
     /\ ~LastIsa.b)
        => /\ last.out = "assert"
           /\ halted
           /\ last.res = NoRes
           /\ last.dst = 0
           /\ handles[last.src] = last.pre
           /\ last.pre.shape = "unique"
                 => UniqueOwners(handles, last.pre.addr) = 1

C14_Witness ==
    /\ last.op = "cast"
    /\ last.pre = Handle("unique", "Shape", 1)
    /\ heap[1].cls = "Rectangle"
    /\ LastTo = "Square"
    /\ ~LastIsa.b
    /\ last.out = "assert"
    /\ handles[last.src].addr = 1


\* the classes of one hierarchy that are neither the class D, nor an ancestor
\* of D, nor a descendant of D
UnrelatedSiblings(D) ==
    {U \in Types : /\ ClassofParam(U) = ClassofParam(D)
                   /\ ~is_base_of(U, D)
                   /\ ~is_base_of(D, U)}

\* C15: for a value constructed as exactly T (its discriminant is the one T's
\* public constructor sets) and held through a base type, isa<T> is true and
\* isa<U> is false for every unrelated sibling U of T under the same base, for
\* every class of the Shape and Expr hierarchies.
C15_ExactClassAndSiblings ==
    (/\ last.op = "isa"
     /\ last.out = "ok"
     /\ Len(last.cands) = 1)
        => LET T == heap[last.pre.addr].cls IN
           /\ heap[last.pre.addr].kind = CtorKind(T)
           /\ LastTo = T => last.b
           /\ LastTo \in UnrelatedSiblings(T) => ~last.b

C15_Witness ==
    /\ last.op = "isa"
    /\ last.out = "ok"
    /\ last.pre.type = "Shape"
    /\ heap[last.pre.addr].cls = "Ellipse"
    /\ LastTo = "Parallelogram"
    /\ LastTo \in UnrelatedSiblings("Ellipse")
    /\ last.calls = <<"Parallelogram">>
    /\ ~last.b

\* C16: a Square satisfies isa<Square>, isa<Rectangle> and isa<Parallelogram>
\* and does not satisfy isa<Rhombus>; for every shape kind k and every class C
\* of the Shape example that declares classof, C::classof is true for k
\* exactly when C is the class of k or one of its ancestors (k ranges over the
\* kinds of the values the program constructs: every kind of ShapeKind).
C16_ClassofMatchesHierarchy ==
    /\ (/\ last.op = "isa"
        /\ last.out = "ok"
        /\ Len(last.cands) = 1
        /\ heap[last.pre.addr].cls = "Square")
          => /\ LastTo \in {"Square", "Rectangle", "Parallelogram"} => last.b
             /\ LastTo = "Rhombus" => ~last.b
    /\ (/\ last.op = "isa"
        /\ last.out = "ok"
        /\ last.calls = <<LastTo>>
        /\ LastTo \in ShapeClasses)
          => (last.b <=> is_base_of(LastTo, heap[last.pre.addr].cls))
    /\ heap[1].cls \in ShapeClasses
          => \A C \in ShapeClasses \ AbstractClasses :
                classof(C, heap[1].kind) <=> is_base_of(C, heap[1].cls)

C16_Witness ==
    /\ last.op = "isa"
    /\ last.out = "ok"
    /\ last.pre.type = "Shape"
    /\ heap[last.pre.addr].cls = "Square"
    /\ LastTo = "Rectangle"
    /\ last.calls = <<"Rectangle">>
    /\ last.b


\* isa<T> evaluated now through the k-th handle of the program
IsaVia(T, k) == isa(variant, <<T>>, handles[k]).b

\* C17: membership is stable: after any sequence of calls the discriminant of
\* the value is the one its constructor set, and the answer the last isa<T>
\* call gave (or the presence of the last dyn_cast<T> result) is the answer
\* isa<T> gives when evaluated again: through the handle the call was made on,
\* as it was before the call, and through every non-empty handle the program
\* holds on the value after it, whatever their static types.
C17_IsaStable ==
    (/\ last.op \in {"isa", "dyn_cast"}
     /\ last.out = "ok"
     /\ last.pre.addr # 0)
        => LET answer == IF last.op = "isa" THEN last.b ELSE last.res.present
           IN /\ heap[last.pre.addr].kind = CtorKind(heap[last.pre.addr].cls)
              /\ LastIsa.b = answer
              /\ \A k \in DOMAIN handles :
                    handles[k].addr # 0 => IsaVia(LastTo, k) = answer

\* isa<Parallelogram> through a shared handle of static type Rectangle that an
\* earlier cast made from a handle of static type Shape
C17_Witness ==
    /\ last.op = "isa"
    /\ last.out = "ok"
    /\ last.src = 2
    /\ handles[1] = Handle("shared", "Shape", 1)
    /\ handles[2] = Handle("shared", "Rectangle", 1)
    /\ LastTo = "Parallelogram"
    /\ last.calls = <<>>
    /\ last.b
    /\ isa(variant, <<"Parallelogram">>, handles[1]).calls = <<"Parallelogram">>


\* C18: isa in every shape, and cast and dyn_cast in every shape but the
\* unique handle, leave the source as it was: the reference, pointer, shared
\* handle or optional holds the same value with the discriminant its
\* constructor set, the object is alive and has lost no owner; a source that
\* a call changed is the unique handle of a cast or dyn_cast.
C18_SourceUnchanged ==
    /\ (/\ last.op # "none"
        /\ last.op = "isa" \/ last.pre.shape # "unique")
          => /\ handles[last.src] = last.pre
             /\ last.pre.addr # 0
                   => /\ heap[last.pre.addr] # NoObj
                      /\ heap[last.pre.addr].kind
                            = CtorKind(heap[last.pre.addr].cls)
                      /\ Owners(handles, last.pre.addr) >= last.preOwners
    /\ (last.op # "none" /\ handles[last.src] # last.pre)
          => /\ last.pre.shape = "unique"
             /\ last.op \in {"cast", "dyn_cast"}
             /\ handles[last.src] = [last.pre EXCEPT !.addr = 0]

\* a successful dyn_cast on a shared handle that two handles share
C18_Witness ==
    /\ last.op = "dyn_cast"
    /\ last.pre.shape = "shared"
    /\ last.preOwners = 2
    /\ LastSucceeded
    /\ handles[last.src] = last.pre
    /\ heap[last.pre.addr].kind = SK_Rhombus

\* C19: over any sequence of isa, cast and dyn_cast calls on unique handles,
\* the live object is owned by exactly one non-empty handle at all times:
\* never by both the source and the result of a call, never by none.
C19_UniqueSingleOwner ==
    (handles[1].shape = "unique" /\ heap[1] # NoObj)
        => /\ \A k \in DOMAIN handles : handles[k].shape = "unique"
           /\ UniqueOwners(handles, 1) = 1
           /\ \A j, k \in DOMAIN handles :
                 (handles[j].addr # 0 /\ handles[k].addr # 0) => j = k

\* two successful casts in a row: the object has moved to the third handle
C19_Witness ==
    /\ Len(handles) = 3
    /\ handles[1] = Handle("unique", "Shape", 0)
    /\ handles[2].shape = "unique"
    /\ handles[2].addr = 0
    /\ handles[3] = Handle("unique", "Square", 1)
    /\ heap[1].cls = "Square"

\* C20: dyn_cast<T> fails no assertion for any input in any shape: it reaches
\* the inner cast<T> only for a present input for which isa<T> is true, so the
\* assertions of cast and of isa hold whenever dyn_cast reaches them.
C20_DynCastNeverAsserts ==
    last.op = "dyn_cast"
        => /\ last.out # "assert"
           /\ LastSucceeded => (last.pre.addr # 0 /\ LastIsa.b)

\* a dyn_cast whose inner cast ran, one that did not match and one on an
\* absent input are all reached; this is the first of them
C20_Witness ==
    /\ last.op = "dyn_cast"
    /\ last.pre.shape = "optional"
    /\ last.pre.addr # 0
    /\ LastIsa.b
    /\ LastSucceeded


\* C21: dyn_cast<T> on an empty unique handle or an empty shared handle
\* returns an empty handle of its shape, fails no assertion and calls no
\* classof, and the source stays empty; a dyn_cast on a shared handle that
\* fails or is given an empty handle creates no handle and leaves the number
\* of owners of the object as it was.
C21_DynCastEmptyHandle ==
    /\ (/\ last.op = "dyn_cast"
        /\ last.pre.shape \in {"unique", "shared"}
        /\ last.pre.addr = 0)
          => /\ last.out = "ok"
             /\ ~last.res.present
             /\ last.res.rshape = last.pre.shape
             /\ last.res.type = LastTo
             /\ last.calls = <<>>
             /\ handles[last.src] = last.pre
             /\ last.dst = 0
    /\ (/\ last.op = "dyn_cast"
        /\ last.pre.shape = "shared"
        /\ ~LastSucceeded)
          => /\ last.out = "ok"
             /\ handles[last.src] = last.pre
             /\ last.dst = 0
             /\ Owners(handles, last.pre.addr) = last.preOwners


\* the header that variant v is not
OtherVariant(v) == IF v = "hxx" THEN "h" ELSE "hxx"

\* what the last call returns when the program includes the other header
OtherLast ==
    CASE last.op = "isa" -> isa(OtherVariant(variant), last.cands, last.pre)
      [] last.op = "cast" -> cast(OtherVariant(variant), LastTo, last.pre)
      [] last.op = "dyn_cast" ->
            dyn_cast(OtherVariant(variant), LastTo, last.pre)

\* C22: casting.h and casting.hxx are observationally equivalent: for isa,
\* cast and dyn_cast, in every shape and for every input (present and
\* matching, present and not matching, absent), the two headers give the same
\* outcome: the same assertion failure or normal return, the same boolean,
\* the same present or absent result of the same shape and type on the same
\* object, and the same source handle afterwards.
C22_VariantsEquivalent ==
    last.op # "none"
        => LET o == OtherLast IN
           /\ o.out = last.out
           /\ o.b = last.b
           /\ o.res.present = last.res.present
           /\ o.res.rshape = last.res.rshape
           /\ o.res.type = last.res.type
           /\ o.res.addr = last.res.addr
           /\ o.src = handles[last.src]

====
